---- MODULE Spec2Model ----
(***************************************************************************)
(* A model of the GraphQL lexer (src/src/lexer.rs), the recursive-descent  *)
(* parser that pulls tokens from it (src/src/parse.rs) and the Document it *)
(* builds (src/src/ast.rs).                                                *)
(*                                                                         *)
(* Bytes are one-character strings and the buffer is a sequence of bytes.  *)
(* The cursor counts the bytes already consumed, so buffer[cursor + 1] is  *)
(* the byte that next_byte returns.  Option<T> is a sequence of at most    *)
(* one element: <<>> is None and <<x>> is Some(x).                         *)
(*                                                                         *)
(* A symbol (lasso::Spur) is represented by the text it was interned from: *)
(* Rodeo::get_or_intern returns equal keys exactly for equal texts.        *)
(*                                                                         *)
(* The parser is a pushdown machine: `stack` holds one frame per active    *)
(* call (its function, its position `pc` and its locals), `returned` holds *)
(* what the last finished call returned.  One action models one function;  *)
(* it runs the function from its current position to its next call or to   *)
(* its return.                                                             *)
(***************************************************************************)
EXTENDS Integers, Sequences, FiniteSets, TLC

VARIABLES
    buffer,          \* Lexer::buffer, the source bytes
    cursor,          \* Lexer::cursor
    overflow_checks, \* build profile: TRUE when `cursor -= 1` panics on underflow
    stack,           \* the active calls, innermost first
    returned,        \* the function that returned last, and the Result it returned
    status,          \* "running", "done", "err", "panic" or "overflow"
    document,        \* GraphqlParser::document
    inserted,        \* history: the definitions inserted into the document, in order
    calls            \* history: the calls a client made on the Lexer, with their results

vars == <<buffer, cursor, overflow_checks, stack, returned, status, document, inserted, calls>>

(***************************************************************************)
(* Bounds of the model.                                                    *)
(***************************************************************************)
\* Elements kept of a Vec or String that a loop fills; a loop that never ends
\* keeps pushing, and the model keeps the first MaxVec / MaxStr elements.
MaxVec == 4
MaxStr == 20
\* Depth of the call stack at which the process dies of stack overflow.
MaxDepth == 14
\* Calls a client makes on one Lexer.
MaxCalls == 2
\* Length of the buffers enumerated for the Lexer.
MaxLen == 4

\* usize::MAX, what `0 - 1` wraps to without overflow checks (the model's
\* usize is 31 bits wide, the width of the model checker's integers).
USIZE_MAX == 2147483647

(***************************************************************************)
(* Bytes.                                                                  *)
(***************************************************************************)
Lower == {"a","b","c","d","e","f","g","h","i","j","k","l","m",
          "n","o","p","q","r","s","t","u","v","w","x","y","z"}
Upper == {"A","B","C","D","E","F","G","H","I","J","K","L","M",
          "N","O","P","Q","R","S","T","U","V","W","X","Y","Z"}
Digit == {"0","1","2","3","4","5","6","7","8","9"}
NameStart == Lower \cup Upper \cup {"_"}
NameBody == NameStart \cup Digit
Ignored == {" ", "\t", "\n", "\r", ","}
\* char::is_whitespace on the bytes a buffer can hold (str::trim strips these)
Whitespace == {" ", "\t", "\n", "\r", "\f"}

(***************************************************************************)
(* Tokens (ast.rs, enum Token and enum Keyword).                           *)
(***************************************************************************)
Tok(t, k, v) == [t |-> t, k |-> k, v |-> v]
Name(sym) == Tok("Name", "", sym)
String(sym) == Tok("String", "", sym)
Keyword(k) == Tok("Keyword", k, <<>>)
Punct(t) == Tok(t, "", <<>>)

\* the keyword table of lex_identifier
KeywordOf(ident) ==
    CASE ident = <<"t","y","p","e">> -> <<"Type">>
      [] ident = <<"i","n","p","u","t">> -> <<"Input">>
      [] ident = <<"e","n","u","m">> -> <<"Enum">>
      [] ident = <<"i","m","p","l","e","m","e","n","t","s">> -> <<"Implements">>
      [] ident = <<"s","c","a","l","a","r">> -> <<"Scalar">>
      [] ident = <<"t","r","u","e">> -> <<"True">>
      [] ident = <<"f","a","l","s","e">> -> <<"False">>
      [] ident = <<"u","n","i","o","n">> -> <<"Union">>
      [] ident = <<"f","r","a","g","m","e","n","t">> -> <<"Fragment">>
      [] ident = <<"q","u","e","r","y">> -> <<"Query">>
      [] ident = <<"m","u","t","a","t","i","o","n">> -> <<"Mutation">>
      [] ident = <<"s","u","b","s","c","r","i","p","t","i","o","n">> -> <<"Subscription">>
      [] ident = <<"e","x","t","e","n","d">> -> <<"Extend">>
      [] ident = <<"n","u","l","l">> -> <<"Null">>
      [] ident = <<"i","n","t","e","r","f","a","c","e">> -> <<"Interface">>
      [] ident = <<"o","n">> -> <<"On">>
      [] OTHER -> <<>>

\* Keyword::as_str
as_str(k) ==
    CASE k = "Type" -> <<"t","y","p","e">>
      [] k = "Input" -> <<"i","n","p","u","t">>
      [] k = "Enum" -> <<"e","n","u","m">>
      [] k = "Implements" -> <<"i","m","p","l","e","m","e","n","t","s">>
      [] k = "Scalar" -> <<"s","c","a","l","a","r">>
      [] k = "True" -> <<"t","r","u","e">>
      [] k = "False" -> <<"f","a","l","s","e">>
      [] k = "Union" -> <<"u","n","i","o","n">>
      [] k = "Fragment" -> <<"f","r","a","g","m","e","n","t">>
      [] k = "Query" -> <<"q","u","e","r","y">>
      [] k = "Mutation" -> <<"m","u","t","a","t","i","o","n">>
      [] k = "Subscription" -> <<"s","u","b","s","c","r","i","p","t","i","o","n">>
      [] k = "Extend" -> <<"e","x","t","e","n","d">>
      [] k = "Null" -> <<"n","u","l","l">>
      [] k = "Interface" -> <<"i","n","t","e","r","f","a","c","e">>
      [] k = "On" -> <<"o","n">>

(***************************************************************************)
(* Errors (error.rs) and the results of the Lexer's functions.             *)
(***************************************************************************)
NoErr == [kind |-> "", token |-> <<>>, found |-> <<>>]
\* ExpectedChar { token, found }: token is a byte, found an Option of a byte
ExpectedChar(byte, found) == [kind |-> "ExpectedChar", token |-> byte, found |-> found]
\* ExpectedToken { token, found }: token is a Token, found an Option of a Token
ExpectedToken(tok, found) == [kind |-> "ExpectedToken", token |-> tok, found |-> found]

\* The result of a function of the Lexer, with the cursor it leaves:
\*   "Ok" with tok = <<t>> is Ok(Some(t)), "Ok" with tok = <<>> is Ok(None),
\*   "Err" is Err(err), "Panic" is a panic (todo!(), arithmetic overflow),
\*   "Block" is lex_string handing over to lex_block_string.
LexOk(tok, cur) == [st |-> "Ok", tok |-> tok, err |-> NoErr, cur |-> cur]
LexErr(err, cur) == [st |-> "Err", tok |-> <<>>, err |-> err, cur |-> cur]
LexPanic(cur) == [st |-> "Panic", tok |-> <<>>, err |-> NoErr, cur |-> cur]
LexBlock(cur) == [st |-> "Block", tok |-> <<>>, err |-> NoErr, cur |-> cur]

(***************************************************************************)
(* The Lexer (lexer.rs).                                                   *)
(***************************************************************************)
\* a next_byte that advances the cursor whether or not there is a byte
next_byte_advancing(cur) ==
    IF cur < Len(buffer)
      THEN [b |-> <<buffer[cur + 1]>>, cur |-> cur + 1]
      ELSE [b |-> <<>>, cur |-> cur + 1]

\* buffer.get(cursor), advancing the cursor when there is a byte
next_byte(cur) ==
    IF cur < Len(buffer)
      THEN [b |-> <<buffer[cur + 1]>>, cur |-> cur + 1]
      ELSE [b |-> <<>>, cur |-> cur]

peek_byte(cur) == IF cur < Len(buffer) THEN <<buffer[cur + 1]>> ELSE <<>>

\* cursor -= 1 on a usize: at 0 it panics with overflow checks and wraps without
go_back(cur) ==
    IF cur > 0 THEN [panic |-> FALSE, cur |-> cur - 1]
    ELSE IF overflow_checks THEN [panic |-> TRUE, cur |-> cur]
    ELSE [panic |-> FALSE, cur |-> USIZE_MAX]

\* the loop of skip_ignored_characters, as a function of the cursor
skip_loop[cur \in Nat] ==
    LET b == peek_byte(cur) IN
    IF b # <<>> /\ b[1] \in Ignored
      THEN skip_loop[next_byte(cur).cur]
      ELSE cur

skip_ignored_characters(cur) == skip_loop[cur]

expect_byte(cur0, byte) ==
    LET n == next_byte(skip_ignored_characters(cur0)) IN
    IF n.b = <<byte>> THEN LexOk(<<>>, n.cur)
    ELSE LexErr(ExpectedChar(byte, n.b), n.cur)

\* the result is [st, ok, cur]: st = "Panic" when go_back panics, else ok is
\* the bool returned
consume_byte_if_eq(cur0, byte) ==
    LET n == next_byte(skip_ignored_characters(cur0)) IN
    IF <<byte>> # n.b
      THEN LET g == go_back(n.cur) IN
           [st |-> IF g.panic THEN "Panic" ELSE "Ok", ok |-> FALSE, cur |-> g.cur]
      ELSE [st |-> "Ok", ok |-> TRUE, cur |-> n.cur]

\* while self.consume_byte_if_name_body() {}
name_body_end[cur \in Nat] ==
    LET b == peek_byte(cur) IN
    IF b # <<>> /\ b[1] \in NameBody THEN name_body_end[next_byte(cur).cur] ELSE cur

lex_identifier(start) ==
    LET end == name_body_end[start]
        ident == SubSeq(buffer, start + 1, end)
        kw == KeywordOf(ident)
    IN  LexOk(<<IF kw # <<>> THEN Keyword(kw[1]) ELSE Name(ident)>>, end)

\* String::push on a buffer a loop fills
PushStr(acc, c) == IF Len(acc) < MaxStr THEN Append(acc, c) ELSE acc

\* the loop of lex_string over a single-line string
lex_string_loop[cur \in Nat, acc \in Seq(STRING), is_escaped \in BOOLEAN] ==
    LET n == next_byte(cur) IN
    IF n.b = <<>> THEN LexErr(ExpectedChar("\"", <<>>), n.cur)
    ELSE LET b == n.b[1] IN
      CASE is_escaped /\ b = "\"" -> lex_string_loop[n.cur, PushStr(acc, "\""), is_escaped]
        [] is_escaped /\ b = "\\" -> lex_string_loop[n.cur, PushStr(acc, "\\"), is_escaped]
        [] is_escaped /\ b = "/" -> lex_string_loop[n.cur, PushStr(acc, "/"), is_escaped]
        [] is_escaped /\ b = "n" -> lex_string_loop[n.cur, PushStr(acc, "\n"), is_escaped]
        [] is_escaped /\ b \in {"b", "f", "u"} -> LexPanic(n.cur)
        [] is_escaped /\ b = "r" -> lex_string_loop[n.cur, PushStr(acc, "\r"), is_escaped]
        [] is_escaped /\ b = "t" -> lex_string_loop[n.cur, PushStr(acc, "\t"), is_escaped]
        [] ~is_escaped /\ b = "\\" -> lex_string_loop[n.cur, acc, TRUE]
        [] b = "\n" -> LexErr(ExpectedChar("\"", <<"\n">>), n.cur)
        [] ~is_escaped /\ b = "\"" -> LexOk(<<String(acc)>>, n.cur)
        [] OTHER -> lex_string_loop[n.cur, PushStr(acc, b), is_escaped]

\* lex_string, entered with the cursor after the opening quote
lex_string(cur) ==
    LET two == consume_byte_if_eq(cur, "\"")
        three == consume_byte_if_eq(two.cur, "\"")
    IN  IF two.st = "Panic" THEN LexPanic(two.cur)
        ELSE IF three.st = "Panic" THEN LexPanic(three.cur)
        ELSE IF three.ok THEN LexBlock(three.cur)
        ELSE IF two.ok THEN LexOk(<<String(<<>>)>>, three.cur)
        ELSE lex_string_loop[three.cur, <<>>, FALSE]

\* the Token of a one-byte punctuator
PunctOf(b) ==
    CASE b = "!" -> "Bang"
      [] b = "$" -> "Dollar"
      [] b = "(" -> "OpenParen"
      [] b = ")" -> "CloseParen"
      [] b = ":" -> "Colon"
      [] b = "=" -> "Eq"
      [] b = "@" -> "AtSign"
      [] b = "[" -> "OpenSquareBrace"
      [] b = "]" -> "CloseSquareBrace"
      [] b = "{" -> "OpenCurlyBrace"
      [] b = "|" -> "Pipe"
      [] b = "}" -> "CloseCurlyBrace"
      [] b = "&" -> "Ampersand"
      [] OTHER -> ""

\* next_token up to its return, or up to the call of lex_block_string
RECURSIVE next_token(_)
next_token(cur0) ==
    LET n == next_byte(skip_ignored_characters(cur0)) IN
    IF n.b = <<>> THEN LexOk(<<>>, n.cur)
    ELSE LET b == n.b[1] IN
      CASE b \in Ignored -> next_token(n.cur)
        [] b = "#" -> LexPanic(n.cur)
        [] b = "." ->
            LET e1 == expect_byte(n.cur, ".")
                e2 == expect_byte(e1.cur, ".")
            IN  IF e1.st = "Err" THEN e1
                ELSE IF e2.st = "Err" THEN e2
                ELSE LexOk(<<Punct("DotDotDot")>>, e2.cur)
        [] PunctOf(b) # "" -> LexOk(<<Punct(PunctOf(b))>>, n.cur)
        [] b \in NameStart ->
            LET g == go_back(n.cur) IN
            IF g.panic THEN LexPanic(g.cur) ELSE lex_identifier(g.cur)
        [] b \in Digit -> LexPanic(n.cur)
        [] b = "\"" -> lex_string(n.cur)
        [] OTHER -> LexPanic(n.cur)

\* str::trim
RECURSIVE trim_start(_)
trim_start(s) == IF s # <<>> /\ Head(s) \in Whitespace THEN trim_start(Tail(s)) ELSE s
RECURSIVE trim_end(_)
trim_end(s) ==
    IF s # <<>> /\ s[Len(s)] \in Whitespace THEN trim_end(SubSeq(s, 1, Len(s) - 1)) ELSE s
trim(s) == trim_end(trim_start(s))


(***************************************************************************)
(* The machine: frames, results and the effect of one step.                *)
(***************************************************************************)
\* The Result a finished call left: "Ok" with its value, "Err" with its error;
\* "None" while a call is running.
RetNone == [st |-> "None", v |-> <<>>, err |-> NoErr]
RetOk(v) == [st |-> "Ok", v |-> v, err |-> NoErr]
RetErr(e) == [st |-> "Err", v |-> <<>>, err |-> e]
\* what a client's call record holds when the call panicked or overflowed the stack
RetPanic == [st |-> "Panic", v |-> <<>>, err |-> NoErr]
RetOverflow == [st |-> "Overflow", v |-> <<>>, err |-> NoErr]

\* What a step of a function does: it calls (its frame becomes f, the callee's
\* frame g is pushed), goes on in its own frame, returns Ok(v), returns Err(e)
\* or panics; cur is the cursor it leaves, ins the definition it inserts into
\* the document.
Call(g, f, cur) ==
    [k |-> "Call", cur |-> cur, top |-> <<f>>, push |-> <<g>>, val |-> RetNone, ins |-> <<>>]
Goto(f, cur) ==
    [k |-> "Goto", cur |-> cur, top |-> <<f>>, push |-> <<>>, val |-> RetNone, ins |-> <<>>]
Return(v, cur) ==
    [k |-> "Return", cur |-> cur, top |-> <<>>, push |-> <<>>, val |-> RetOk(v), ins |-> <<>>]
ReturnIns(v, cur, ins) ==
    [k |-> "Return", cur |-> cur, top |-> <<>>, push |-> <<>>, val |-> RetOk(v), ins |-> <<ins>>]
Fail(e, cur) ==
    [k |-> "Err", cur |-> cur, top |-> <<>>, push |-> <<>>, val |-> RetErr(e), ins |-> <<>>]
Panic(cur) ==
    [k |-> "Panic", cur |-> cur, top |-> <<>>, push |-> <<>>, val |-> RetNone, ins |-> <<>>]

\* Vec::push on a vector a loop fills
Push(vec, x) == IF Len(vec) < MaxVec THEN Append(vec, x) ELSE vec

\* an insert that keeps the value a key already has
MapInsert_keeping(map, key, value) ==
    IF key \in DOMAIN map THEN map ELSE (key :> value) @@ map
\* HashMap::insert: insert or replace
MapInsert(map, key, value) == (key :> value) @@ map

\* the frames of the Lexer's functions
NextTokenFrame == [fn |-> "next_token", pc |-> 0]
PeekTokenFrame == [fn |-> "peek_token", pc |-> 0, start |-> 0]
BlockStringFrame == [fn |-> "lex_block_string", pc |-> 0, buf |-> <<>>]

Top == Head(stack)
\* the Result the last finished call returned
ret == returned[2]
Running(fn) == status = "running" /\ stack # <<>> /\ Top.fn = fn /\ ret.st # "Err"

\* the record of a client's call, closed when the call ends
CloseCall(r, c) ==
    IF calls = <<>> THEN calls
    ELSE [calls EXCEPT ![Len(calls)] = [@ EXCEPT !.res = r, !.to = c, !.open = FALSE]]

\* Document: the map a definition goes to (next_definition)
Insert(doc, ins) == [doc EXCEPT ![ins.map] = MapInsert(@, ins.key, ins.def)]

Apply(outcome) ==
    \E o \in {outcome} :
      LET new == o.push \o o.top \o Tail(stack) IN
      /\ cursor' = o.cur
      /\ UNCHANGED <<buffer, overflow_checks>>
      /\ IF o.k = "Panic"
           THEN /\ status' = "panic"
                /\ calls' = CloseCall(RetPanic, o.cur)
                /\ UNCHANGED <<stack, returned, document, inserted>>
         ELSE IF Len(new) > MaxDepth
           THEN /\ status' = "overflow"
                /\ calls' = CloseCall(RetOverflow, o.cur)
                /\ UNCHANGED <<stack, returned, document, inserted>>
         ELSE /\ stack' = new
              /\ returned' = <<Top.fn, o.val>>
              /\ status' = IF new # <<>> THEN "running"
                           ELSE IF o.k = "Err" THEN "err" ELSE "done"
              /\ calls' = IF new = <<>> THEN CloseCall(o.val, o.cur) ELSE calls
              /\ document' = IF o.ins = <<>> THEN document ELSE Insert(document, o.ins[1])
              /\ inserted' = IF o.ins = <<>> THEN inserted ELSE Append(inserted, o.ins[1])

\* the `?` of a caller: an Err goes up one frame; peek_token, which has no `?`,
\* first puts the cursor back
propagate ==
    /\ status = "running" /\ stack # <<>> /\ ret.st = "Err"
    /\ cursor' = IF Top.fn = "peek_token" /\ Top.pc = 1 THEN Top.start ELSE cursor
    /\ stack' = Tail(stack)
    /\ status' = IF Tail(stack) = <<>> THEN "err" ELSE "running"
    /\ calls' = IF Tail(stack) = <<>> THEN CloseCall(ret, cursor') ELSE calls
    /\ UNCHANGED <<buffer, overflow_checks, returned, document, inserted>>

(***************************************************************************)
(* The Lexer's functions that run as frames.                               *)
(***************************************************************************)
next_token_step(f, r, cur) ==
    LET t == next_token(cur) IN
    CASE t.st = "Ok" -> Return(t.tok, t.cur)
      [] t.st = "Err" -> Fail(t.err, t.cur)
      [] t.st = "Panic" -> Panic(t.cur)
      [] t.st = "Block" -> Goto(BlockStringFrame, t.cur)

\* one turn of the loop of lex_block_string
lex_block_string_step(f, r, cur) ==
    LET n == next_byte(cur) IN
    IF n.b = <<>> THEN Fail(ExpectedChar("\"", <<>>), n.cur)
    ELSE IF n.b # <<"\"">> THEN Goto([f EXCEPT !.buf = PushStr(@, n.b[1])], n.cur)
    ELSE LET n1 == next_byte(n.cur)
             n2 == next_byte(n1.cur)
             g1 == go_back(n2.cur)
             g2 == go_back(g1.cur)
         IN  IF n1.b = <<"\"">> /\ n2.b = <<"\"">>
               THEN Return(<<String(trim(f.buf))>>, n2.cur)
             ELSE IF g1.panic THEN Panic(g1.cur)
             ELSE IF g2.panic THEN Panic(g2.cur)
             ELSE Goto(f, g2.cur)

\* a peek_token that leaves the cursor behind the token
peek_token_step_committing(f, r, cur) ==
    IF f.pc = 0
      THEN LET start == skip_ignored_characters(cur) IN
           Call(NextTokenFrame, [f EXCEPT !.pc = 1, !.start = start], start)
      ELSE Return(r.v, cur)

peek_token_step(f, r, cur) ==
    IF f.pc = 0
      THEN LET start == skip_ignored_characters(cur) IN
           Call(NextTokenFrame, [f EXCEPT !.pc = 1, !.start = start], start)
      ELSE Return(r.v, f.start)

lex_next_token == Running("next_token") /\ Apply(next_token_step(Top, ret, cursor))
lex_block_string == Running("lex_block_string") /\ Apply(lex_block_string_step(Top, ret, cursor))
lex_peek_token == Running("peek_token") /\ Apply(peek_token_step(Top, ret, cursor))

(***************************************************************************)
(* The parser (parse.rs).  A call of consume_byte_if_eq or expect_byte is  *)
(* part of the step that makes it.                                         *)
(***************************************************************************)
\* if self.lexer.consume_byte_if_eq(byte) { yes } else { no }
IfByte(cur, byte, yes(_), no(_)) ==
    LET c == consume_byte_if_eq(cur, byte) IN
    IF c.st = "Panic" THEN Panic(c.cur)
    ELSE IF c.ok THEN yes(c.cur) ELSE no(c.cur)

\* self.lexer.expect_byte(byte)?; then
ExpectByte(cur, byte, then(_)) ==
    LET e == expect_byte(cur, byte) IN
    IF e.st = "Err" THEN Fail(e.err, e.cur) ELSE then(e.cur)

\* Type::set_nonnullable
set_nonnullable(ty) == [ty EXCEPT !.nullable = TRUE]

\* the frames of the functions called from several places
ExpectNameFrame == [fn |-> "expect_name", pc |-> 0]
ExpectTokenFrame(token) == [fn |-> "expect_token", pc |-> 0, token |-> token]
ConsumeTokenFrame(token) == [fn |-> "consume_token_if_eq", pc |-> 0, token |-> token]
DescriptionFrame == [fn |-> "parse_optional_description", pc |-> 0, string |-> <<>>]
DirectivesFrame ==
    [fn |-> "parse_optional_directives", pc |-> 0, directives |-> <<>>, name |-> <<>>]
ValueFrame == [fn |-> "parse_value", pc |-> 0]
TypeFrame == [fn |-> "parse_type", pc |-> 0]
SelectionSetFrame == [fn |-> "parse_selection_set", pc |-> 0, selection_set |-> <<>>]
ArgumentsFrame == [fn |-> "parse_arguments", pc |-> 0, arguments |-> <<>>, name |-> <<>>]
FieldDefinitionFrame ==
    [fn |-> "parse_field_definition", pc |-> 0, description |-> <<>>, name |-> <<>>,
     arguments |-> <<>>, ty |-> <<>>]
InputFieldFrame ==
    [fn |-> "parse_input_field_definition", pc |-> 0, description |-> <<>>,
     name |-> <<>>, ty |-> <<>>, default |-> <<>>]
\* a type-system definition: its frame starts with the description it is given
DefinitionFrame(fn, description) ==
    [fn |-> fn, pc |-> 0, description |-> description, name |-> <<>>,
     implements |-> <<>>, directives |-> <<>>, members |-> <<>>]

parse_step(f, r, cur) ==
    IF f.pc = 0 THEN Call([fn |-> "next_definition", pc |-> 0, description |-> <<>>, keyword |-> ""],
                          [f EXCEPT !.pc = 1], cur)
    ELSE IF r.v THEN Call([fn |-> "next_definition", pc |-> 0, description |-> <<>>, keyword |-> ""],
                          f, cur)
    ELSE Return(<<>>, cur)

expect_name_step(f, r, cur) ==
    IF f.pc = 0 THEN Call(NextTokenFrame, [f EXCEPT !.pc = 1], cur)
    ELSE IF r.v # <<>> /\ r.v[1].t = "Name" THEN Return(r.v[1].v, cur)
    ELSE IF r.v # <<>> /\ r.v[1].t = "Keyword" THEN Return(as_str(r.v[1].k), cur)
    ELSE Panic(cur)

expect_token_step(f, r, cur) ==
    IF f.pc = 0 THEN Call(NextTokenFrame, [f EXCEPT !.pc = 1], cur)
    ELSE IF r.v = <<f.token>> THEN Return(<<>>, cur)
    ELSE Fail(ExpectedToken(f.token, r.v), cur)

consume_token_if_eq_step(f, r, cur) ==
    CASE f.pc = 0 -> Call(PeekTokenFrame, [f EXCEPT !.pc = 1], cur)
      [] f.pc = 1 -> IF r.v = <<f.token>>
                       THEN Call(NextTokenFrame, [f EXCEPT !.pc = 2], cur)
                       ELSE Return(FALSE, cur)
      [] f.pc = 2 -> Return(TRUE, cur)

parse_optional_description_step(f, r, cur) ==
    CASE f.pc = 0 -> Call(PeekTokenFrame, [f EXCEPT !.pc = 1], cur)
      [] f.pc = 1 -> IF r.v # <<>> /\ r.v[1].t = "String"
                       THEN Call(NextTokenFrame, [f EXCEPT !.pc = 2, !.string = r.v[1].v], cur)
                       ELSE Return(<<>>, cur)
      [] f.pc = 2 -> Return(<<f.string>>, cur)

parse_value_step(f, r, cur) ==
    CASE f.pc = 0 -> Call(NextTokenFrame, [f EXCEPT !.pc = 1], cur)
      [] f.pc = 1 ->
          IF r.v = <<>> THEN Panic(cur)
          ELSE LET tok == r.v[1] IN
            CASE tok.t = "String" -> Return([value |-> "String", v |-> tok.v], cur)
              [] tok.t = "Keyword" /\ tok.k = "True" -> Return([value |-> "True", v |-> <<>>], cur)
              [] tok.t = "Keyword" /\ tok.k = "False" -> Return([value |-> "False", v |-> <<>>], cur)
              [] tok.t = "Keyword" /\ tok.k = "Null" -> Return([value |-> "Null", v |-> <<>>], cur)
              [] tok.t = "Dollar" -> Call(ExpectNameFrame, [f EXCEPT !.pc = 2], cur)
              [] tok.t = "Name" -> Return([value |-> "EnumVariant", v |-> tok.v], cur)
              [] tok.t = "OpenSquareBrace" ->
                  Call([fn |-> "parse_list_value", pc |-> 0, values |-> <<>>],
                       [f EXCEPT !.pc = 3], cur)
              [] tok.t = "OpenCurlyBrace" ->
                  Call([fn |-> "parse_object_value", pc |-> 0, values |-> <<>>, key |-> <<>>],
                       [f EXCEPT !.pc = 4], cur)
              [] OTHER -> Panic(cur)
      [] f.pc = 2 -> Return([value |-> "Variable", v |-> r.v], cur)
      [] f.pc = 3 -> Return([value |-> "List", v |-> r.v], cur)
      [] f.pc = 4 -> Return([value |-> "Object", v |-> r.v], cur)

parse_list_value_step(f, r, cur) ==
    LET loop(g, c) ==
          IfByte(c, "]", LAMBDA c2 : Return(g.values, c2),
                         LAMBDA c2 : Call(ValueFrame, [g EXCEPT !.pc = 1], c2))
    IN  IF f.pc = 0 THEN loop(f, cur)
        ELSE loop([f EXCEPT !.values = Push(@, r.v)], cur)

parse_object_value_step(f, r, cur) ==
    LET loop(g, c) ==
          IfByte(c, "}", LAMBDA c2 : Return(g.values, c2),
                         LAMBDA c2 : Call(ExpectNameFrame, [g EXCEPT !.pc = 1], c2))
    IN  CASE f.pc = 0 -> loop(f, cur)
          [] f.pc = 1 ->
              ExpectByte(cur, ":",
                  LAMBDA c : Call(ValueFrame, [f EXCEPT !.pc = 2, !.key = r.v], c))
          [] f.pc = 2 -> loop([f EXCEPT !.values = MapInsert(@, f.key, r.v)], cur)

parse_optional_directives_step(f, r, cur) ==
    LET loop(g, c) ==
          IfByte(c, "@", LAMBDA c2 : Call(ExpectNameFrame, [g EXCEPT !.pc = 1], c2),
                         LAMBDA c2 : Return(g.directives, c2))
    IN  CASE f.pc = 0 -> loop(f, cur)
          [] f.pc = 1 ->
              IfByte(cur, "(",
                  LAMBDA c : Call(ArgumentsFrame, [f EXCEPT !.pc = 2, !.name = r.v], c),
                  LAMBDA c : loop([f EXCEPT !.directives =
                                      Push(@, [name |-> r.v, arguments |-> <<>>])], c))
          [] f.pc = 2 ->
              loop([f EXCEPT !.directives =
                        Push(@, [name |-> f.name, arguments |-> <<r.v>>])], cur)

parse_arguments_step(f, r, cur) ==
    LET loop(g, c) ==
          IfByte(c, ")", LAMBDA c2 : Return(g.arguments, c2),
                         LAMBDA c2 : Call(ExpectNameFrame, [g EXCEPT !.pc = 1], c2))
    IN  CASE f.pc = 0 -> loop(f, cur)
          [] f.pc = 1 ->
              ExpectByte(cur, ":",
                  LAMBDA c : Call(ValueFrame, [f EXCEPT !.pc = 2, !.name = r.v], c))
          [] f.pc = 2 ->
              loop([f EXCEPT !.arguments = Push(@, [name |-> f.name, value |-> r.v])], cur)

parse_type_step(f, r, cur) ==
    LET bang(base, c) ==
          IfByte(c, "!", LAMBDA c2 : Return(set_nonnullable(base), c2),
                         LAMBDA c2 : Return(base, c2))
    IN  CASE f.pc = 0 -> Call(NextTokenFrame, [f EXCEPT !.pc = 1], cur)
          [] f.pc = 1 ->
              IF r.v # <<>> /\ r.v[1].t = "Name"
                THEN bang([type |-> "Named", name |-> r.v[1].v, nullable |-> TRUE], cur)
              ELSE IF r.v # <<>> /\ r.v[1].t = "OpenSquareBrace"
                THEN Call(TypeFrame, [f EXCEPT !.pc = 2], cur)
              ELSE Panic(cur)
          [] f.pc = 2 ->
              ExpectByte(cur, "]",
                  LAMBDA c : bang([type |-> "List", base |-> r.v, nullable |-> TRUE], c))

parse_input_field_definition_step(f, r, cur) ==
    CASE f.pc = 0 -> Call(DescriptionFrame, [f EXCEPT !.pc = 1], cur)
      [] f.pc = 1 -> Call(ExpectNameFrame, [f EXCEPT !.pc = 2, !.description = r.v], cur)
      [] f.pc = 2 ->
          ExpectByte(cur, ":", LAMBDA c : Call(TypeFrame, [f EXCEPT !.pc = 3, !.name = r.v], c))
      [] f.pc = 3 ->
          IfByte(cur, "=",
              LAMBDA c : Call(ValueFrame, [f EXCEPT !.pc = 4, !.ty = r.v], c),
              LAMBDA c : Call(DirectivesFrame, [f EXCEPT !.pc = 5, !.ty = r.v], c))
      [] f.pc = 4 -> Call(DirectivesFrame, [f EXCEPT !.pc = 5, !.default = <<r.v>>], cur)
      [] f.pc = 5 ->
          Return([description |-> f.description, name |-> f.name, ty |-> f.ty,
                  default |-> f.default, directives |-> r.v], cur)

parse_field_arguments_step(f, r, cur) ==
    LET loop(g, c) ==
          IfByte(c, ")", LAMBDA c2 : Return(g.arguments, c2),
                         LAMBDA c2 : Call(InputFieldFrame, [g EXCEPT !.pc = 1], c2))
    IN  IF f.pc = 0 THEN loop(f, cur)
        ELSE loop([f EXCEPT !.arguments = Push(@, r.v)], cur)

parse_optional_field_arguments_step(f, r, cur) ==
    IF f.pc = 0
      THEN IfByte(cur, "(",
               LAMBDA c : Call([fn |-> "parse_field_arguments", pc |-> 0, arguments |-> <<>>],
                               [f EXCEPT !.pc = 1], c),
               LAMBDA c : Return(<<>>, c))
      ELSE Return(<<r.v>>, cur)

parse_field_definition_step(f, r, cur) ==
    CASE f.pc = 0 -> Call(DescriptionFrame, [f EXCEPT !.pc = 1], cur)
      [] f.pc = 1 -> Call(ExpectNameFrame, [f EXCEPT !.pc = 2, !.description = r.v], cur)
      [] f.pc = 2 -> Call([fn |-> "parse_optional_field_arguments", pc |-> 0],
                          [f EXCEPT !.pc = 3, !.name = r.v], cur)
      [] f.pc = 3 ->
          ExpectByte(cur, ":",
              LAMBDA c : Call(TypeFrame, [f EXCEPT !.pc = 4, !.arguments = r.v], c))
      [] f.pc = 4 -> Call(DirectivesFrame, [f EXCEPT !.pc = 5, !.ty = r.v], cur)
      [] f.pc = 5 ->
          Return([description |-> f.description, name |-> f.name, arguments |-> f.arguments,
                  ty |-> f.ty, directives |-> r.v], cur)

parse_interface_step(f, r, cur) ==
    LET loop(g, c) ==
          IfByte(c, "}",
              LAMBDA c2 : Return([description |-> g.description, name |-> g.name,
                                  directives |-> g.directives, fields |-> g.members], c2),
              LAMBDA c2 : Call(FieldDefinitionFrame, [g EXCEPT !.pc = 3], c2))
    IN  CASE f.pc = 0 -> Call(ExpectNameFrame, [f EXCEPT !.pc = 1], cur)
          [] f.pc = 1 -> Call(DirectivesFrame, [f EXCEPT !.pc = 2, !.name = r.v], cur)
          [] f.pc = 2 ->
              ExpectByte(cur, "{", LAMBDA c : loop([f EXCEPT !.directives = r.v], c))
          [] f.pc = 3 -> loop([f EXCEPT !.members = Push(@, r.v)], cur)

parse_scalar_step(f, r, cur) ==
    CASE f.pc = 0 -> Call(ExpectNameFrame, [f EXCEPT !.pc = 1], cur)
      [] f.pc = 1 -> Call(DirectivesFrame, [f EXCEPT !.pc = 2, !.name = r.v], cur)
      [] f.pc = 2 ->
          Return([description |-> f.description, name |-> f.name, directives |-> r.v], cur)

parse_enum_variant_step(f, r, cur) ==
    CASE f.pc = 0 -> Call(DescriptionFrame, [f EXCEPT !.pc = 1], cur)
      [] f.pc = 1 -> Call(ExpectNameFrame, [f EXCEPT !.pc = 2, !.description = r.v], cur)
      [] f.pc = 2 -> Call(DirectivesFrame, [f EXCEPT !.pc = 3, !.name = r.v], cur)
      [] f.pc = 3 ->
          Return([description |-> f.description, name |-> f.name, directives |-> r.v], cur)

parse_enum_step(f, r, cur) ==
    LET loop(g, c) ==
          IfByte(c, "}",
              LAMBDA c2 : Return([description |-> g.description, name |-> g.name,
                                  directives |-> g.directives, variants |-> g.members], c2),
              LAMBDA c2 : Call([fn |-> "parse_enum_variant", pc |-> 0,
                                description |-> <<>>, name |-> <<>>],
                               [g EXCEPT !.pc = 3], c2))
    IN  CASE f.pc = 0 -> Call(ExpectNameFrame, [f EXCEPT !.pc = 1], cur)
          [] f.pc = 1 -> Call(DirectivesFrame, [f EXCEPT !.pc = 2, !.name = r.v], cur)
          [] f.pc = 2 ->
              ExpectByte(cur, "{", LAMBDA c : loop([f EXCEPT !.directives = r.v], c))
          [] f.pc = 3 -> loop([f EXCEPT !.members = Push(@, r.v)], cur)

parse_input_object_definition_step(f, r, cur) ==
    LET loop(g, c) ==
          IfByte(c, "}",
              LAMBDA c2 : Return([description |-> g.description, name |-> g.name,
                                  directives |-> g.directives, fields |-> <<g.members>>], c2),
              LAMBDA c2 : Call(InputFieldFrame, [g EXCEPT !.pc = 3], c2))
    IN  CASE f.pc = 0 -> Call(ExpectNameFrame, [f EXCEPT !.pc = 1], cur)
          [] f.pc = 1 -> Call(DirectivesFrame, [f EXCEPT !.pc = 2, !.name = r.v], cur)
          [] f.pc = 2 ->
              ExpectByte(cur, "{", LAMBDA c : loop([f EXCEPT !.directives = r.v], c))
          [] f.pc = 3 -> loop([f EXCEPT !.members = Push(@, r.v)], cur)

parse_implements_step(f, r, cur) ==
    IF f.pc = 0 THEN Call(ExpectNameFrame, [f EXCEPT !.pc = 1], cur)
    ELSE LET g == [f EXCEPT !.types = Push(@, r.v)] IN
         IfByte(cur, "&", LAMBDA c : Call(ExpectNameFrame, g, c),
                          LAMBDA c : Return(g.types, c))

parse_object_type_definition_step(f, r, cur) ==
    LET loop(g, c) ==
          IfByte(c, "}",
              LAMBDA c2 : Return([implements |-> g.implements, description |-> g.description,
                                  name |-> g.name, directives |-> g.directives,
                                  fields |-> <<g.members>>], c2),
              LAMBDA c2 : Call(FieldDefinitionFrame, [g EXCEPT !.pc = 5], c2))
    IN  CASE f.pc = 0 -> Call(ExpectNameFrame, [f EXCEPT !.pc = 1], cur)
          [] f.pc = 1 -> Call(ConsumeTokenFrame(Keyword("Implements")),
                              [f EXCEPT !.pc = 2, !.name = r.v], cur)
          [] f.pc = 2 ->
              IF r.v THEN Call([fn |-> "parse_implements", pc |-> 0, types |-> <<>>],
                               [f EXCEPT !.pc = 3], cur)
              ELSE Call(DirectivesFrame, [f EXCEPT !.pc = 4], cur)
          [] f.pc = 3 -> Call(DirectivesFrame, [f EXCEPT !.pc = 4, !.implements = r.v], cur)
          [] f.pc = 4 ->
              ExpectByte(cur, "{", LAMBDA c : loop([f EXCEPT !.directives = r.v], c))
          [] f.pc = 5 -> loop([f EXCEPT !.members = Push(@, r.v)], cur)

parse_union_step(f, r, cur) ==
    CASE f.pc = 0 -> Call(ExpectNameFrame, [f EXCEPT !.pc = 1], cur)
      [] f.pc = 1 -> Call(DirectivesFrame, [f EXCEPT !.pc = 2, !.name = r.v], cur)
      [] f.pc = 2 ->
          ExpectByte(cur, "=",
              LAMBDA c : Call(ExpectNameFrame, [f EXCEPT !.pc = 3, !.directives = r.v], c))
      [] f.pc = 3 ->
          LET g == [f EXCEPT !.members = Push(@, r.v)] IN
          IfByte(cur, "|",
              LAMBDA c : Call(ExpectNameFrame, g, c),
              LAMBDA c : Return([name |-> g.name, description |-> g.description,
                                 directives |-> g.directives, types |-> g.members], c))

parse_variable_definitions_step(f, r, cur) ==
    LET loop(g, c) ==
          IfByte(c, ")",
              LAMBDA c2 : Return(g.variable_definitions, c2),
              LAMBDA c2 : Call(ExpectTokenFrame(Punct("Dollar")), [g EXCEPT !.pc = 1], c2))
    IN  CASE f.pc = 0 -> loop(f, cur)
          [] f.pc = 1 -> Call(ExpectNameFrame, [f EXCEPT !.pc = 2], cur)
          [] f.pc = 2 -> Call(ExpectTokenFrame(Punct("Colon")),
                              [f EXCEPT !.pc = 3, !.name = r.v], cur)
          [] f.pc = 3 -> Call(TypeFrame, [f EXCEPT !.pc = 4], cur)
          [] f.pc = 4 ->
              IfByte(cur, "=",
                  LAMBDA c : Call(ValueFrame, [f EXCEPT !.pc = 5, !.ty = r.v], c),
                  LAMBDA c : loop([f EXCEPT !.variable_definitions =
                                      Push(@, [name |-> f.name, ty |-> r.v,
                                               default |-> <<>>])], c))
          [] f.pc = 5 ->
              loop([f EXCEPT !.variable_definitions =
                        Push(@, [name |-> f.name, ty |-> f.ty, default |-> <<r.v>>])], cur)

parse_operation_step(f, r, cur) ==
    LET after_name(g, c) ==
          IfByte(c, "(",
              LAMBDA c2 : Call([fn |-> "parse_variable_definitions", pc |-> 0,
                                variable_definitions |-> <<>>, name |-> <<>>, ty |-> <<>>],
                               [g EXCEPT !.pc = 3], c2),
              LAMBDA c2 : Call(DirectivesFrame, [g EXCEPT !.pc = 4], c2))
    IN  CASE f.pc = 0 -> Call(PeekTokenFrame, [f EXCEPT !.pc = 1], cur)
          [] f.pc = 1 ->
              IF r.v # <<>> /\ r.v[1].t = "Name"
                THEN Call(NextTokenFrame, [f EXCEPT !.pc = 2, !.name = <<r.v[1].v>>], cur)
                ELSE after_name(f, cur)
          [] f.pc = 2 -> after_name(f, cur)
          [] f.pc = 3 -> Call(DirectivesFrame,
                              [f EXCEPT !.pc = 4, !.variable_definitions = r.v], cur)
          [] f.pc = 4 -> Call(ExpectTokenFrame(Punct("OpenCurlyBrace")),
                              [f EXCEPT !.pc = 5, !.directives = r.v], cur)
          [] f.pc = 5 -> Call(SelectionSetFrame, [f EXCEPT !.pc = 6], cur)
          [] f.pc = 6 ->
              Return([kind |-> f.kind, name |-> f.name,
                      variable_definitions |-> f.variable_definitions,
                      directives |-> f.directives, selection_set |-> r.v], cur)

parse_fragment_definition_step(f, r, cur) ==
    CASE f.pc = 0 -> Call(ExpectNameFrame, [f EXCEPT !.pc = 1], cur)
      [] f.pc = 1 -> Call(ExpectTokenFrame(Keyword("On")), [f EXCEPT !.pc = 2, !.name = r.v], cur)
      [] f.pc = 2 -> Call(ExpectNameFrame, [f EXCEPT !.pc = 3], cur)
      [] f.pc = 3 -> Call(DirectivesFrame, [f EXCEPT !.pc = 4, !.on = r.v], cur)
      [] f.pc = 4 -> Call(ExpectTokenFrame(Punct("OpenCurlyBrace")),
                          [f EXCEPT !.pc = 5, !.directives = r.v], cur)
      [] f.pc = 5 -> Call(SelectionSetFrame, [f EXCEPT !.pc = 6], cur)
      [] f.pc = 6 ->
          Return([name |-> f.name, on |-> f.on, directives |-> f.directives,
                  selection_set |-> r.v], cur)

parse_selection_set_step(f, r, cur) ==
    LET loop(g, c) ==
          IfByte(c, "}",
              LAMBDA c2 : Return(g.selection_set, c2),
              LAMBDA c2 : Call(ConsumeTokenFrame(Punct("DotDotDot")), [g EXCEPT !.pc = 1], c2))
    IN  CASE f.pc = 0 -> loop(f, cur)
          [] f.pc = 1 ->
              IF r.v THEN Call([fn |-> "parse_inline_or_spread_fragment", pc |-> 0,
                                name |-> <<>>],
                               [f EXCEPT !.pc = 2], cur)
              ELSE Call([fn |-> "parse_fragment_field", pc |-> 0, alias |-> <<>>,
                         name |-> <<>>, arguments |-> <<>>, directives |-> <<>>],
                        [f EXCEPT !.pc = 2], cur)
          [] f.pc = 2 -> loop([f EXCEPT !.selection_set = Push(@, r.v)], cur)

\* a parser that reads a fragment spread after every `...`
parse_inline_or_spread_fragment_step_spread_only(f, r, cur) ==
    CASE f.pc = 0 -> Call(ExpectNameFrame, [f EXCEPT !.pc = 3], cur)
      [] f.pc = 3 -> Call(DirectivesFrame, [f EXCEPT !.pc = 4, !.name = r.v], cur)
      [] f.pc = 4 ->
          Return([selection |-> "FragmentSpread", name |-> f.name, directives |-> r.v], cur)

parse_inline_or_spread_fragment_step(f, r, cur) ==
    CASE f.pc = 0 -> Call(ConsumeTokenFrame(Keyword("On")), [f EXCEPT !.pc = 1], cur)
      [] f.pc = 1 ->
          IF r.v THEN Call([fn |-> "parse_inline_fragment", pc |-> 0, on |-> <<>>,
                            directives |-> <<>>],
                           [f EXCEPT !.pc = 2], cur)
          ELSE Call(ExpectNameFrame, [f EXCEPT !.pc = 3], cur)
      [] f.pc = 2 -> Return(r.v, cur)
      [] f.pc = 3 -> Call(DirectivesFrame, [f EXCEPT !.pc = 4, !.name = r.v], cur)
      [] f.pc = 4 ->
          Return([selection |-> "FragmentSpread", name |-> f.name, directives |-> r.v], cur)

parse_inline_fragment_step(f, r, cur) ==
    CASE f.pc = 0 -> Call(ExpectNameFrame, [f EXCEPT !.pc = 1], cur)
      [] f.pc = 1 -> Call(DirectivesFrame, [f EXCEPT !.pc = 2, !.on = r.v], cur)
      [] f.pc = 2 -> Call(ExpectTokenFrame(Punct("OpenCurlyBrace")),
                          [f EXCEPT !.pc = 3, !.directives = r.v], cur)
      [] f.pc = 3 -> Call(SelectionSetFrame, [f EXCEPT !.pc = 4], cur)
      [] f.pc = 4 ->
          Return([selection |-> "InlineFragment", on |-> f.on, directives |-> f.directives,
                  selection_set |-> r.v], cur)

\* a parser that takes the name after the colon for the alias
parse_fragment_field_step_swapped(f, r, cur) ==
    LET after_directives(g, c) ==
          IfByte(c, "{",
              LAMBDA c2 : Call(SelectionSetFrame, [g EXCEPT !.pc = 5], c2),
              LAMBDA c2 : Return([selection |-> "Field", alias |-> g.alias, name |-> g.name,
                                  arguments |-> g.arguments, directives |-> g.directives,
                                  selection_set |-> <<>>], c2))
        after_name(g, c) ==
          IfByte(c, "(",
              LAMBDA c2 : Call(ArgumentsFrame, [g EXCEPT !.pc = 3], c2),
              LAMBDA c2 : Call(DirectivesFrame, [g EXCEPT !.pc = 4], c2))
    IN  CASE f.pc = 0 -> Call(ExpectNameFrame, [f EXCEPT !.pc = 1], cur)
          [] f.pc = 1 ->
              IfByte(cur, ":",
                  LAMBDA c : Call(ExpectNameFrame, [f EXCEPT !.pc = 2, !.name = r.v], c),
                  LAMBDA c : after_name([f EXCEPT !.name = r.v], c))
          [] f.pc = 2 -> after_name([f EXCEPT !.alias = <<r.v>>], cur)
          [] f.pc = 3 -> Call(DirectivesFrame, [f EXCEPT !.pc = 4, !.arguments = <<r.v>>], cur)
          [] f.pc = 4 -> after_directives([f EXCEPT !.directives = r.v], cur)
          [] f.pc = 5 ->
              Return([selection |-> "Field", alias |-> f.alias, name |-> f.name,
                      arguments |-> f.arguments, directives |-> f.directives,
                      selection_set |-> <<r.v>>], cur)

parse_fragment_field_step(f, r, cur) ==
    LET after_directives(g, c) ==
          IfByte(c, "{",
              LAMBDA c2 : Call(SelectionSetFrame, [g EXCEPT !.pc = 5], c2),
              LAMBDA c2 : Return([selection |-> "Field", alias |-> g.alias, name |-> g.name,
                                  arguments |-> g.arguments, directives |-> g.directives,
                                  selection_set |-> <<>>], c2))
        after_name(g, c) ==
          IfByte(c, "(",
              LAMBDA c2 : Call(ArgumentsFrame, [g EXCEPT !.pc = 3], c2),
              LAMBDA c2 : Call(DirectivesFrame, [g EXCEPT !.pc = 4], c2))
    IN  CASE f.pc = 0 -> Call(ExpectNameFrame, [f EXCEPT !.pc = 1], cur)
          [] f.pc = 1 ->
              IfByte(cur, ":",
                  LAMBDA c : Call(ExpectNameFrame, [f EXCEPT !.pc = 2, !.alias = <<r.v>>], c),
                  LAMBDA c : after_name([f EXCEPT !.name = r.v], c))
          [] f.pc = 2 -> after_name([f EXCEPT !.name = r.v], cur)
          [] f.pc = 3 -> Call(DirectivesFrame, [f EXCEPT !.pc = 4, !.arguments = <<r.v>>], cur)
          [] f.pc = 4 -> after_directives([f EXCEPT !.directives = r.v], cur)
          [] f.pc = 5 ->
              Return([selection |-> "Field", alias |-> f.alias, name |-> f.name,
                      arguments |-> f.arguments, directives |-> f.directives,
                      selection_set |-> <<r.v>>], cur)

\* next_definition: the production and the Document map of a leading keyword
ProductionOf(k) ==
    CASE k = "Enum" -> [fn |-> "parse_enum", map |-> "enums"]
      [] k = "Type" -> [fn |-> "parse_object_type_definition", map |-> "output_objects"]
      [] k \in {"Query", "Mutation", "Subscription"} ->
            [fn |-> "parse_operation", map |-> "operations"]
      [] k = "Fragment" -> [fn |-> "parse_fragment_definition", map |-> "fragments"]
      [] k = "Union" -> [fn |-> "parse_union", map |-> "unions"]
      [] k = "Input" -> [fn |-> "parse_input_object_definition", map |-> "input_objects"]
      [] k = "Scalar" -> [fn |-> "parse_scalar", map |-> "scalars"]
      [] k = "Interface" -> [fn |-> "parse_interface", map |-> "interfaces"]
      [] OTHER -> [fn |-> "", map |-> ""]

\* the key a definition is inserted under
KeyOf(map, def) == IF map = "operations" THEN <<def.name, def.kind>> ELSE def.name

next_definition_step(f, r, cur) ==
    CASE f.pc = 0 -> Call(DescriptionFrame, [f EXCEPT !.pc = 1], cur)
      [] f.pc = 1 -> Call(NextTokenFrame, [f EXCEPT !.pc = 2, !.description = r.v], cur)
      [] f.pc = 2 ->
          IF r.v = <<>> THEN Return(FALSE, cur)
          ELSE LET tok == r.v[1]
                   p == ProductionOf(tok.k)
                   g == [f EXCEPT !.pc = 3, !.keyword = tok.k]
               IN  CASE tok.t # "Keyword" \/ p.fn = "" -> Panic(cur)
                     [] tok.t = "Keyword" /\ p.fn = "parse_operation" ->
                          Call([fn |-> "parse_operation", pc |-> 0, kind |-> tok.k,
                                name |-> <<>>, variable_definitions |-> <<>>,
                                directives |-> <<>>], g, cur)
                     [] tok.t = "Keyword" /\ p.fn = "parse_fragment_definition" ->
                          Call([fn |-> "parse_fragment_definition", pc |-> 0, name |-> <<>>,
                                on |-> <<>>, directives |-> <<>>], g, cur)
                     [] OTHER -> Call(DefinitionFrame(p.fn, f.description), g, cur)
      [] f.pc = 3 ->
          LET map == ProductionOf(f.keyword).map IN
          ReturnIns(TRUE, cur, [keyword |-> f.keyword, map |-> map,
                                key |-> KeyOf(map, r.v), def |-> r.v])

\* ---- Document::validate ----

InterfaceDne(name) == [error |-> "InterfaceDne", name |-> name]

\* ObjectType::validate_implements_fields: it returns the Vec it created
validate_implements_fields(obj, fields) == <<>>

\* a validation that gives up at the first interface it does not find
RECURSIVE validate_object_stopping(_, _, _)
validate_object_stopping(doc, obj, k) ==
    IF k > Len(obj.implements) THEN <<>>
    ELSE LET interface_name == obj.implements[k] IN
         IF interface_name \notin DOMAIN doc.interfaces
           THEN <<InterfaceDne(interface_name)>>
           ELSE validate_implements_fields(obj, doc.interfaces[interface_name].fields)
                  \o validate_object_stopping(doc, obj, k + 1)

\* the inner loop of validate over obj.implements, from entry k on
RECURSIVE validate_object(_, _, _)
validate_object(doc, obj, k) ==
    IF k > Len(obj.implements) THEN <<>>
    ELSE LET interface_name == obj.implements[k] IN
         (IF interface_name \notin DOMAIN doc.interfaces
            THEN <<InterfaceDne(interface_name)>>
            ELSE validate_implements_fields(obj, doc.interfaces[interface_name].fields))
           \o validate_object(doc, obj, k + 1)

\* the orders in which HashMap::values can yield the entries under keys
ValuesOrders(keys) ==
    {o \in [1..Cardinality(keys) -> keys] : \A i, j \in DOMAIN o : i # j => o[i] # o[j]}

\* the outer loop of validate, output_objects.values() yielding in this order
RECURSIVE validate_from(_, _)
validate_from(doc, order) ==
    IF order = <<>> THEN <<>>
    ELSE validate_object(doc, doc.output_objects[Head(order)], 1)
           \o validate_from(doc, Tail(order))

\* Document::validate(&self), called on the Document a parse returned
validate ==
    /\ status = "done" /\ stack = <<>> /\ calls = <<>>
    /\ \E order \in ValuesOrders(DOMAIN document.output_objects) :
         returned' = <<"validate", RetOk(validate_from(document, order))>>
    /\ UNCHANGED <<buffer, cursor, overflow_checks, stack, status, document, inserted, calls>>

parse == Running("parse") /\ Apply(parse_step(Top, ret, cursor))
next_definition == Running("next_definition") /\ Apply(next_definition_step(Top, ret, cursor))
expect_name == Running("expect_name") /\ Apply(expect_name_step(Top, ret, cursor))
expect_token == Running("expect_token") /\ Apply(expect_token_step(Top, ret, cursor))
consume_token_if_eq ==
    Running("consume_token_if_eq") /\ Apply(consume_token_if_eq_step(Top, ret, cursor))
parse_optional_description ==
    /\ Running("parse_optional_description")
    /\ Apply(parse_optional_description_step(Top, ret, cursor))
parse_value == Running("parse_value") /\ Apply(parse_value_step(Top, ret, cursor))
parse_list_value == Running("parse_list_value") /\ Apply(parse_list_value_step(Top, ret, cursor))
parse_object_value ==
    Running("parse_object_value") /\ Apply(parse_object_value_step(Top, ret, cursor))
parse_optional_directives ==
    /\ Running("parse_optional_directives")
    /\ Apply(parse_optional_directives_step(Top, ret, cursor))
parse_arguments == Running("parse_arguments") /\ Apply(parse_arguments_step(Top, ret, cursor))
parse_type == Running("parse_type") /\ Apply(parse_type_step(Top, ret, cursor))
parse_input_field_definition ==
    /\ Running("parse_input_field_definition")
    /\ Apply(parse_input_field_definition_step(Top, ret, cursor))
parse_field_arguments ==
    Running("parse_field_arguments") /\ Apply(parse_field_arguments_step(Top, ret, cursor))
parse_optional_field_arguments ==
    /\ Running("parse_optional_field_arguments")
    /\ Apply(parse_optional_field_arguments_step(Top, ret, cursor))
parse_field_definition ==
    Running("parse_field_definition") /\ Apply(parse_field_definition_step(Top, ret, cursor))
parse_interface == Running("parse_interface") /\ Apply(parse_interface_step(Top, ret, cursor))
parse_scalar == Running("parse_scalar") /\ Apply(parse_scalar_step(Top, ret, cursor))
parse_enum_variant ==
    Running("parse_enum_variant") /\ Apply(parse_enum_variant_step(Top, ret, cursor))
parse_enum == Running("parse_enum") /\ Apply(parse_enum_step(Top, ret, cursor))
parse_input_object_definition ==
    /\ Running("parse_input_object_definition")
    /\ Apply(parse_input_object_definition_step(Top, ret, cursor))
parse_implements == Running("parse_implements") /\ Apply(parse_implements_step(Top, ret, cursor))
parse_object_type_definition ==
    /\ Running("parse_object_type_definition")
    /\ Apply(parse_object_type_definition_step(Top, ret, cursor))
parse_union == Running("parse_union") /\ Apply(parse_union_step(Top, ret, cursor))
parse_variable_definitions ==
    /\ Running("parse_variable_definitions")
    /\ Apply(parse_variable_definitions_step(Top, ret, cursor))
parse_operation == Running("parse_operation") /\ Apply(parse_operation_step(Top, ret, cursor))
parse_fragment_definition ==
    /\ Running("parse_fragment_definition")
    /\ Apply(parse_fragment_definition_step(Top, ret, cursor))
parse_selection_set ==
    Running("parse_selection_set") /\ Apply(parse_selection_set_step(Top, ret, cursor))
parse_inline_or_spread_fragment ==
    /\ Running("parse_inline_or_spread_fragment")
    /\ Apply(parse_inline_or_spread_fragment_step(Top, ret, cursor))
parse_inline_fragment ==
    Running("parse_inline_fragment") /\ Apply(parse_inline_fragment_step(Top, ret, cursor))
parse_fragment_field ==
    Running("parse_fragment_field") /\ Apply(parse_fragment_field_step(Top, ret, cursor))

(***************************************************************************)
(* A client of the Lexer: it makes up to MaxCalls calls on one Lexer.      *)
(***************************************************************************)
EmptyDocument ==
    [operations |-> <<>>, fragments |-> <<>>, input_objects |-> <<>>,
     output_objects |-> <<>>, interfaces |-> <<>>, scalars |-> <<>>,
     unions |-> <<>>, enums |-> <<>>]

\* the bytes the enumerated buffers are made of, by what they exercise
DotBytes == {".", " ", ",", "a"}
CommentBytes == {"#", "\n", "a", " "}
NumberBytes == {"-", "0", "1", ".", "e", " "}
StringBytes == {"\"", "a", " ", "\n"}
EscapeBytes == {"\"", "\\", "n", "f", "a"}

RECURSIVE SeqsUpTo(_, _)
SeqsUpTo(S, n) ==
    IF n = 0 THEN {<<>>}
    ELSE LET shorter == SeqsUpTo(S, n - 1) IN
         shorter \cup {Append(s, x) : s \in {t \in shorter : Len(t) = n - 1}, x \in S}

\* block strings: the quotes around every content of up to MaxContent bytes,
\* and one with lines indented by 2, 4 and 2 spaces
MaxContent == 3
Quotes == <<"\"", "\"", "\"">>
IndentedContent ==
    <<"a", "\n", " ", " ", "b", "\n", " ", " ", " ", " ", "c", "\n", " ", " ", "d">>
BlockContents == SeqsUpTo({"a", " ", "\n"}, MaxContent) \cup {IndentedContent}
BlockStringInputs == {Quotes \o c \o Quotes : c \in BlockContents}

LexInputs ==
    SeqsUpTo(DotBytes, MaxLen) \cup SeqsUpTo(CommentBytes, MaxLen)
        \cup SeqsUpTo(NumberBytes, MaxLen) \cup SeqsUpTo(StringBytes, MaxLen)
        \cup SeqsUpTo(EscapeBytes, MaxLen) \cup BlockStringInputs

\* the bytes a client passes to expect_byte and consume_byte_if_eq
ClientBytes == {"a"}

CanCall == status \in {"idle", "done", "err"} /\ stack = <<>> /\ Len(calls) < MaxCalls
OpenCall(op, byte) ==
    Append(calls, [op |-> op, byte |-> byte, from |-> cursor, open |-> TRUE,
                   res |-> RetNone, to |-> cursor])

LexInit ==
    /\ buffer \in LexInputs
    /\ cursor = 0
    /\ overflow_checks \in BOOLEAN
    /\ stack = <<>>
    /\ returned = <<"", RetNone>>
    /\ status = "idle"
    /\ document = EmptyDocument
    /\ inserted = <<>>
    /\ calls = <<>>

call_next_token ==
    /\ CanCall
    /\ stack' = <<NextTokenFrame>>
    /\ status' = "running"
    /\ returned' = <<"", RetNone>>
    /\ calls' = OpenCall("next_token", "")
    /\ UNCHANGED <<buffer, cursor, overflow_checks, document, inserted>>

call_peek_token ==
    /\ CanCall
    /\ stack' = <<PeekTokenFrame>>
    /\ status' = "running"
    /\ returned' = <<"", RetNone>>
    /\ calls' = OpenCall("peek_token", "")
    /\ UNCHANGED <<buffer, cursor, overflow_checks, document, inserted>>

call_expect_byte ==
    \E b \in ClientBytes :
      LET e == expect_byte(cursor, b)
          r == IF e.st = "Err" THEN RetErr(e.err) ELSE RetOk(<<>>)
      IN  /\ CanCall
          /\ cursor' = e.cur
          /\ returned' = <<"expect_byte", r>>
          /\ status' = IF e.st = "Err" THEN "err" ELSE "done"
          /\ calls' = Append(calls, [op |-> "expect_byte", byte |-> b, from |-> cursor,
                                     open |-> FALSE, res |-> r, to |-> e.cur])
          /\ UNCHANGED <<buffer, overflow_checks, stack, document, inserted>>

call_consume_byte_if_eq ==
    \E b \in ClientBytes :
      LET c == consume_byte_if_eq(cursor, b)
          r == IF c.st = "Panic" THEN RetPanic ELSE RetOk(c.ok)
      IN  /\ CanCall
          /\ cursor' = c.cur
          /\ returned' = <<"consume_byte_if_eq", r>>
          /\ status' = IF c.st = "Panic" THEN "panic" ELSE "done"
          /\ calls' = Append(calls, [op |-> "consume_byte_if_eq", byte |-> b, from |-> cursor,
                                     open |-> FALSE, res |-> r, to |-> c.cur])
          /\ UNCHANGED <<buffer, overflow_checks, stack, document, inserted>>

LexNext ==
    \/ call_next_token
    \/ call_peek_token
    \/ call_expect_byte
    \/ call_consume_byte_if_eq
    \/ lex_next_token
    \/ lex_block_string
    \/ lex_peek_token
    \/ propagate

LexSpec == LexInit /\ [][LexNext]_vars

(***************************************************************************)
(* GraphqlParser::parse on a buffer.                                       *)
(***************************************************************************)
\* Definitions put in sequence in one document.
MaxDefs == 2

\* documents; the parser is run on each and on each of its prefixes
Documents ==
    \* """d""" enum E @x(a: $v) { "d" A @y B }\n
    { <<"\"","\"","\"","d","\"","\"","\""," ","e","n","u","m"," ","E"," ","@","x","(","a",":",
        " ","$","v",")"," ","{"," ","\"","d","\""," ","A"," ","@","y"," ","B"," ","}","\n">>
    \* type T implements I & J @d { "f" a(x: [I!]! = [A {k: null}] @d, y: I): [I!]! @d b: I }\n
    , <<"t","y","p","e"," ","T"," ","i","m","p","l","e","m","e","n","t","s"," ","I"," ","&"," ",
        "J"," ","@","d"," ","{"," ","\"","f","\""," ","a","(","x",":"," ","[","I","!","]","!",
        " ","="," ","[","A"," ","{","k",":"," ","n","u","l","l","}","]"," ","@","d",","," ","y",
        ":"," ","I",")",":"," ","[","I","!","]","!"," ","@","d"," ","b",":"," ","I"," ","}",
        "\n">>
    \* interface I @d { a: I }\n
    , <<"i","n","t","e","r","f","a","c","e"," ","I"," ","@","d"," ","{"," ","a",":"," ","I"," ",
        "}","\n">>
    \* scalar S @d\n
    , <<"s","c","a","l","a","r"," ","S"," ","@","d","\n">>
    \* union U @d = A | B\n
    , <<"u","n","i","o","n"," ","U"," ","@","d"," ","="," ","A"," ","|"," ","B","\n">>
    \* input N @d { a: I = true b: [I] }\n
    , <<"i","n","p","u","t"," ","N"," ","@","d"," ","{"," ","a",":"," ","I"," ","="," ","t","r",
        "u","e"," ","b",":"," ","[","I","]"," ","}","\n">>
    \* query Q($a: I = false, $b: [I!]) @d { x: a(k: "s") @d { b } ...F @d ... on T @d { c } }\n
    , <<"q","u","e","r","y"," ","Q","(","$","a",":"," ","I"," ","="," ","f","a","l","s","e",",",
        " ","$","b",":"," ","[","I","!","]",")"," ","@","d"," ","{"," ","x",":"," ","a","(","k",
        ":"," ","\"","s","\"",")"," ","@","d"," ","{"," ","b"," ","}"," ",".",".",".","F"," ",
        "@","d"," ",".",".","."," ","o","n"," ","T"," ","@","d"," ","{"," ","c"," ","}"," ","}",
        "\n">>
    \* fragment F on T @d { a }\n
    , <<"f","r","a","g","m","e","n","t"," ","F"," ","o","n"," ","T"," ","@","d"," ","{"," ","a",
        " ","}","\n">>
    \* type Foo { a: Int }
    , <<"t","y","p","e"," ","F","o","o"," ","{"," ","a",":"," ","I","n","t"," ","}">>
    \* query{a}
    , <<"q","u","e","r","y","{","a","}">>
    \* """a""" scalar S\n
    , <<"\"","\"","\"","a","\"","\"","\""," ","s","c","a","l","a","r"," ","S","\n">>
    \* """a"b""" scalar S\n
    , <<"\"","\"","\"","a","\"","b","\"","\"","\""," ","s","c","a","l","a","r"," ","S","\n">>
    \* type T{a:I}\n
    , <<"t","y","p","e"," ","T","{","a",":","I","}","\n">>
    \* type T{a:I!}\n
    , <<"t","y","p","e"," ","T","{","a",":","I","!","}","\n">>
    \* type T{a:[I]}\n
    , <<"t","y","p","e"," ","T","{","a",":","[","I","]","}","\n">>
    \* type T{a:[I]!}\n
    , <<"t","y","p","e"," ","T","{","a",":","[","I","]","!","}","\n">>
    \* type T{a:[I!]}\n
    , <<"t","y","p","e"," ","T","{","a",":","[","I","!","]","}","\n">>
    \* type T{a:[I!]!}\n
    , <<"t","y","p","e"," ","T","{","a",":","[","I","!","]","!","}","\n">>
    \* extend type T{a:I}\n
    , <<"e","x","t","e","n","d"," ","t","y","p","e"," ","T","{","a",":","I","}","\n">>
    \* a
    , <<"a">>
    \* {a}
    , <<"{","a","}">>
    \* "d" {
    , <<"\"","d","\""," ","{">>
    \* on
    , <<"o","n">>
    \* implements
    , <<"i","m","p","l","e","m","e","n","t","s">>
    \* "d" extend
    , <<"\"","d","\""," ","e","x","t","e","n","d">>
    \* query{a(x:[
    , <<"q","u","e","r","y","{","a","(","x",":","[">>
    \* input I{a:B={}
    , <<"i","n","p","u","t"," ","I","{","a",":","B","=","{","}">> }

\* top-level definitions, put in sequence to make documents
SampleDefinitions ==
    \* scalar A\n
    { <<"s","c","a","l","a","r"," ","A","\n">>
    \* scalar B\n
    , <<"s","c","a","l","a","r"," ","B","\n">>
    \* type A{a:I}\n
    , <<"t","y","p","e"," ","A","{","a",":","I","}","\n">>
    \* type A{b:I}\n
    , <<"t","y","p","e"," ","A","{","b",":","I","}","\n">>
    \* interface A{a:I}\n
    , <<"i","n","t","e","r","f","a","c","e"," ","A","{","a",":","I","}","\n">>
    \* union A=B\n
    , <<"u","n","i","o","n"," ","A","=","B","\n">>
    \* union A=C\n
    , <<"u","n","i","o","n"," ","A","=","C","\n">>
    \* enum A{X}\n
    , <<"e","n","u","m"," ","A","{","X","}","\n">>
    \* input A{a:I}\n
    , <<"i","n","p","u","t"," ","A","{","a",":","I","}","\n">>
    \* fragment A on T{a}\n
    , <<"f","r","a","g","m","e","n","t"," ","A"," ","o","n"," ","T","{","a","}","\n">>
    \* query{a}\n
    , <<"q","u","e","r","y","{","a","}","\n">>
    \* query{b}\n
    , <<"q","u","e","r","y","{","b","}","\n">>
    \* query A{a}\n
    , <<"q","u","e","r","y"," ","A","{","a","}","\n">>
    \* mutation{a}\n
    , <<"m","u","t","a","t","i","o","n","{","a","}","\n">>
    \* mutation A{a}\n
    , <<"m","u","t","a","t","i","o","n"," ","A","{","a","}","\n">>
    \* subscription A{b}\n
    , <<"s","u","b","s","c","r","i","p","t","i","o","n"," ","A","{","b","}","\n">> }

OperationKinds == {<<"q","u","e","r","y">>, <<"m","u","t","a","t","i","o","n">>, <<"s","u","b","s","c","r","i","p","t","i","o","n">>}
OperationNames == {<<>>, <<" ","Q">>}
OperationVariables == {<<>>, <<"(","$","a",":","I",")">>}
OperationDirectives == {<<>>, <<"@","d">>}
OperationTails == {<<>>, <<" ">>, <<"{","}">>, <<"{","a","}">>, <<"}">>, <<" ","{","}"," ">>}

Prefixes(s) == {SubSeq(s, 1, n) : n \in 0..Len(s)}

RECURSIVE DefSequences(_)
DefSequences(n) ==
    IF n = 0 THEN {<<>>}
    ELSE LET shorter == DefSequences(n - 1) IN
         shorter \cup {s \o d : s \in shorter, d \in SampleDefinitions}

\* queries whose selection set holds up to MaxSelections selections: plain and
\* aliased fields, fragment spreads and inline fragments
MaxSelections == 2
SelectionItems ==
    {<<"a">>,
     <<"a", ":", "b">>,
     <<"b">>,
     <<"a", " ", ":", " ", "b">>,
     <<".", ".", ".", "F">>,
     <<".", ".", ".", "o", "n", " ", "T", "{", "x", "}">>,
     <<".", ".", ".", " ", "o", "n", " ", "T", "{", "x", " ", "y", ":", "z", "}">>,
     <<".", ".", ".", "o", "n", "X">>,
     <<".", ".", ".", "a">>}
RECURSIVE SelectionBodies(_)
SelectionBodies(n) ==
    IF n = 0 THEN {<<>>}
    ELSE SelectionBodies(n - 1)
           \cup {b \o <<" ">> \o i : b \in SelectionBodies(n - 1), i \in SelectionItems}
SelectionInputs ==
    {<<"q", "u", "e", "r", "y", "{">> \o b \o <<"}">> : b \in SelectionBodies(MaxSelections)}

\* an operation with its name, variable definitions and directives present or
\* absent, followed or not by a selection set
OperationInputs ==
    {k \o n \o v \o d \o t : k \in OperationKinds, n \in OperationNames,
        v \in OperationVariables, d \in OperationDirectives, t \in OperationTails}

\* schemas of up to MaxSchemaDefs definitions: object types that implement
\* interfaces, and interfaces
MaxSchemaDefs == 3
SchemaDefinitions ==
    {<<"t","y","p","e"," ","T"," ","i","m","p","l","e","m","e","n","t","s"," ","I","&","J","{","}","\n">>,
     <<"t","y","p","e"," ","U"," ","i","m","p","l","e","m","e","n","t","s"," ","J","{","}","\n">>,
     <<"t","y","p","e"," ","T","{","}","\n">>,
     <<"i","n","t","e","r","f","a","c","e"," ","I","{","}","\n">>,
     <<"i","n","t","e","r","f","a","c","e"," ","J","{","}","\n">>}
RECURSIVE SchemaInputs(_)
SchemaInputs(n) ==
    IF n = 0 THEN {<<>>}
    ELSE SchemaInputs(n - 1) \cup {s \o d : s \in SchemaInputs(n - 1), d \in SchemaDefinitions}

Inputs ==
    UNION {Prefixes(d) : d \in Documents} \cup DefSequences(MaxDefs) \cup OperationInputs
        \cup SelectionInputs \cup SchemaInputs(MaxSchemaDefs)

Init ==
    /\ buffer \in Inputs
    /\ cursor = 0
    /\ overflow_checks \in BOOLEAN
    /\ stack = <<[fn |-> "parse", pc |-> 0]>>
    /\ returned = <<"", RetNone>>
    /\ status = "running"
    /\ document = EmptyDocument
    /\ inserted = <<>>
    /\ calls = <<>>

Next ==
    \/ parse
    \/ next_definition
    \/ expect_name
    \/ expect_token
    \/ consume_token_if_eq
    \/ parse_optional_description
    \/ parse_value
    \/ parse_list_value
    \/ parse_object_value
    \/ parse_optional_directives
    \/ parse_arguments
    \/ parse_type
    \/ parse_input_field_definition
    \/ parse_field_arguments
    \/ parse_optional_field_arguments
    \/ parse_field_definition
    \/ parse_interface
    \/ parse_scalar
    \/ parse_enum_variant
    \/ parse_enum
    \/ parse_input_object_definition
    \/ parse_implements
    \/ parse_object_type_definition
    \/ parse_union
    \/ parse_variable_definitions
    \/ parse_operation
    \/ parse_fragment_definition
    \/ parse_selection_set
    \/ parse_inline_or_spread_fragment
    \/ parse_inline_fragment
    \/ parse_fragment_field
    \/ lex_next_token
    \/ lex_block_string
    \/ lex_peek_token
    \/ propagate
    \/ validate

Spec == Init /\ [][Next]_vars

\* whole documents, and three that are cut off: before a selection set, inside
\* one, and inside a block string
CutOffInputs ==
    {<<"q","u","e","r","y">>, <<"q","u","e","r","y","{","a">>, <<"\"","\"","\"","a","\"">>}
WholeInputs == Documents \cup CutOffInputs

FairInit ==
    /\ buffer \in WholeInputs
    /\ cursor = 0
    /\ overflow_checks \in BOOLEAN
    /\ stack = <<[fn |-> "parse", pc |-> 0]>>
    /\ returned = <<"", RetNone>>
    /\ status = "running"
    /\ document = EmptyDocument
    /\ inserted = <<>>
    /\ calls = <<>>

\* the parser runs on: a step that can be taken is not put off for ever
FairSpec == FairInit /\ [][Next]_vars /\ WF_vars(Next)

(***************************************************************************)
(* Properties of the parser.                                               *)
(***************************************************************************)
\* the parse has ended: it returned Ok(document) ("done") or Err ("err"), or
\* the process died ("panic", "overflow")
Ended == status # "running"

\* the next significant byte at or after cur is `!`
BangFollows(cur) == peek_byte(skip_ignored_characters(cur)) = <<"!">>

\* parse_type has read one level of a type expression, a name or a list up to
\* its `]`, which ends at `at`, and is about to return it
TypeLevelEnds(at) ==
    /\ Running("parse_type")
    /\ \/ Top.pc = 1 /\ ret.v # <<>> /\ ret.v[1].t = "Name" /\ at = cursor
       \/ Top.pc = 2 /\ expect_byte(cursor, "]").st = "Ok" /\ at = expect_byte(cursor, "]").cur

\* C1: the type that parse_type returns for a level (Named or List) has
\* nullable = FALSE exactly when a `!` directly follows that level, and
\* nullable = TRUE otherwise.
C1_NullableExactlyWithoutBang ==
    [][\A at \in 0..Len(buffer) :
          TypeLevelEnds(at) /\ ret'.st = "Ok" => (ret'.v.nullable <=> ~BangFollows(at))]_vars

\* the buffer is a type, interface, enum or input definition that opens its
\* member list and never closes it (no other brace occurs)
UnclosedMemberList ==
    LET t == next_token(0) IN
    /\ t.st = "Ok" /\ t.tok # <<>> /\ t.tok[1].t = "Keyword"
    /\ t.tok[1].k \in {"Type", "Interface", "Enum", "Input"}
    /\ Cardinality({i \in 1..Len(buffer) : buffer[i] = "{"}) = 1
    /\ \A i \in 1..Len(buffer) : buffer[i] # "}"

\* C2: a definition whose member list is not closed before the end of the
\* input makes parse return an Err whose found component is None; it neither
\* panics nor returns a Document.
C2_UnclosedMemberListIsAnError ==
    UnclosedMemberList /\ Ended => status = "err" /\ ret.err.found = <<>>

\* C3: on every buffer the parse eventually ends; no loop repeats for ever.
C3_ParseEnds == <>Ended

\* the Document map that holds the definitions a keyword starts
MapOfKeyword(k) ==
    CASE k = "Enum" -> "enums"
      [] k = "Type" -> "output_objects"
      [] k = "Interface" -> "interfaces"
      [] k = "Scalar" -> "scalars"
      [] k = "Union" -> "unions"
      [] k = "Input" -> "input_objects"
      [] k = "Fragment" -> "fragments"
      [] k \in {"Query", "Mutation", "Subscription"} -> "operations"

\* the key of the i-th definition of the source: (optional name, kind) for an
\* operation, the name for the others
SourceKey(i) ==
    LET e == inserted[i] IN
    IF e.keyword \in {"Query", "Mutation", "Subscription"}
      THEN <<e.def.name, e.keyword>>
      ELSE e.def.name

\* the definitions of the source that belong to map m
DefinitionsOf(m) == {i \in 1..Len(inserted) : MapOfKeyword(inserted[i].keyword) = m}

\* C4: after a successful parse each of the eight maps holds exactly the keys
\* of the definitions of its kind, and under each key the last definition in
\* source order with that key.
C4_MapsHoldTheLastDefinitions ==
    status = "done" =>
      \A m \in DOMAIN EmptyDocument :
        /\ DOMAIN document[m] = {SourceKey(i) : i \in DefinitionsOf(m)}
        /\ \A i \in DefinitionsOf(m) :
             (\A j \in DefinitionsOf(m) : j > i => SourceKey(j) # SourceKey(i))
               => document[m][SourceKey(i)] = inserted[i].def

\* a successful parse in which a definition replaced an earlier one with its key
C4_Witness ==
    /\ status = "done"
    /\ \E i, j \in 1..Len(inserted) :
         /\ i < j
         /\ MapOfKeyword(inserted[i].keyword) = MapOfKeyword(inserted[j].keyword)
         /\ SourceKey(i) = SourceKey(j)
         /\ inserted[i].def # inserted[j].def

\* the token that leads the first definition, after its optional description
\* (a single-line string)
LeadingToken ==
    LET t == next_token(0) IN
    IF t.st = "Ok" /\ t.tok # <<>> /\ t.tok[1].t = "String" THEN next_token(t.cur) ELSE t

\* the leading token is none of the ten keywords that start a definition
LeadingTokenStartsNothing ==
    /\ LeadingToken.st = "Ok" /\ LeadingToken.tok # <<>>
    /\ ~(/\ LeadingToken.tok[1].t = "Keyword"
         /\ LeadingToken.tok[1].k \in {"Enum", "Type", "Interface", "Scalar", "Union", "Input",
                                       "Fragment", "Query", "Mutation", "Subscription"})

\* C5: when the leading token of a definition is none of the ten keywords,
\* parse returns a parse error (ExpectedChar or ExpectedToken).
C5_OtherLeadingTokenIsAnError ==
    LeadingTokenStartsNothing /\ Ended =>
        status = "err" /\ ret.err.kind \in {"ExpectedChar", "ExpectedToken"}

\* an operation up to where its selection set must start
OperationHeads ==
    {k \o n \o v \o d : k \in OperationKinds, n \in OperationNames,
        v \in OperationVariables, d \in OperationDirectives}

\* C6: an operation is accepted only if a selection set follows, `{}` giving
\* an empty selection list; without one parse returns ExpectedToken expecting
\* `{`, whose found component is the next token, None when the input ends.
C6_OperationNeedsSelectionSet ==
    Ended =>
      \A h \in OperationHeads :
        /\ buffer \in {h, h \o <<" ">>} =>
             /\ status = "err"
             /\ ret.err = ExpectedToken(Punct("OpenCurlyBrace"), <<>>)
        /\ buffer = h \o <<"}">> =>
             /\ status = "err"
             /\ ret.err = ExpectedToken(Punct("OpenCurlyBrace"), <<Punct("CloseCurlyBrace")>>)
        /\ buffer = h \o <<"{", "}">> =>
             /\ status = "done"
             /\ \E key \in DOMAIN document.operations :
                  document.operations[key].selection_set = <<>>

(***************************************************************************)
(* Properties of the Lexer.                                                *)
(***************************************************************************)
\* the calls of next_token a client made from a cursor inside the buffer,
\* which have ended
NextTokenCalls ==
    {i \in 1..Len(calls) :
        calls[i].op = "next_token" /\ ~calls[i].open /\ calls[i].from <= Len(buffer)}

\* the end of the line that holds position cur
RECURSIVE EndOfLine(_)
EndOfLine(cur) ==
    IF peek_byte(cur) = <<>> \/ peek_byte(cur)[1] \in {"\n", "\r"} THEN cur
    ELSE EndOfLine(cur + 1)

\* the first position at or after cur that is in no comment and holds no
\* insignificant byte
RECURSIVE SkipInsignificant(_)
SkipInsignificant(cur) ==
    LET b == peek_byte(cur) IN
    IF b = <<>> THEN cur
    ELSE IF b[1] \in Ignored THEN SkipInsignificant(cur + 1)
    ELSE IF b[1] = "#" THEN SkipInsignificant(EndOfLine(cur))
    ELSE cur

\* C7: next_token skips `#` comments with the insignificant bytes: it returns
\* the token that starts after them, and no token when nothing follows them.
C7_CommentsAreSkipped ==
    \A i \in NextTokenCalls :
      LET t == next_token(SkipInsignificant(calls[i].from)) IN
      t.st = "Ok" => calls[i].res = RetOk(t.tok)

\* numeric literals
NumberChars == Digit \cup {"-", "+", ".", "e", "E"}
RECURSIVE NumberEnd(_)
NumberEnd(cur) ==
    IF peek_byte(cur) # <<>> /\ peek_byte(cur)[1] \in NumberChars
      THEN NumberEnd(cur + 1) ELSE cur
IsDigits(s) == s # <<>> /\ \A i \in 1..Len(s) : s[i] \in Digit
IsIntLiteral(s) ==
    LET d == IF s # <<>> /\ s[1] = "-" THEN Tail(s) ELSE s IN
    IsDigits(d) /\ (d[1] = "0" => Len(d) = 1)
IsFraction(s) == s # <<>> /\ s[1] = "." /\ IsDigits(Tail(s))
IsExponent(s) ==
    /\ Len(s) >= 2 /\ s[1] \in {"e", "E"}
    /\ IsDigits(IF s[2] \in {"+", "-"} THEN Tail(Tail(s)) ELSE Tail(s))
IsFloatLiteral(s) ==
    \E i, j \in 0..Len(s) :
      /\ i <= j
      /\ IsIntLiteral(SubSeq(s, 1, i))
      /\ i = j \/ IsFraction(SubSeq(s, i + 1, j))
      /\ j = Len(s) \/ IsExponent(SubSeq(s, j + 1, Len(s)))
      /\ i < Len(s)

\* C8: next_token returns IntValue for an integer literal at the cursor and
\* FloatValue for one with a fraction and/or an exponent.
C8_NumbersAreLexed ==
    \A i \in NextTokenCalls :
      LET start == skip_ignored_characters(calls[i].from)
          end == NumberEnd(start)
          literal == SubSeq(buffer, start + 1, end)
          alone == peek_byte(end) = <<>> \/ peek_byte(end)[1] \notin NameBody
      IN  /\ IsIntLiteral(literal) /\ alone => calls[i].res = RetOk(<<Punct("IntValue")>>)
          /\ IsFloatLiteral(literal) /\ alone => calls[i].res = RetOk(<<Punct("FloatValue")>>)

\* the value of a block string: its lines, without one leading and one
\* trailing blank line, the common indentation of the lines after the first
\* removed from each of them
RECURSIVE SplitLines(_)
SplitLines(s) ==
    IF \A i \in 1..Len(s) : s[i] # "\n" THEN <<s>>
    ELSE LET k == CHOOSE i \in 1..Len(s) : s[i] = "\n" /\ \A j \in 1..(i - 1) : s[j] # "\n"
         IN  <<SubSeq(s, 1, k - 1)>> \o SplitLines(SubSeq(s, k + 1, Len(s)))
RECURSIVE JoinLines(_)
JoinLines(ls) ==
    IF ls = <<>> THEN <<>>
    ELSE IF Len(ls) = 1 THEN ls[1]
    ELSE ls[1] \o <<"\n">> \o JoinLines(Tail(ls))
IsBlank(line) == \A i \in 1..Len(line) : line[i] \in {" ", "\t"}
Indent(line) ==
    IF IsBlank(line) THEN Len(line)
    ELSE (CHOOSE i \in 1..Len(line) :
            line[i] \notin {" ", "\t"} /\ \A j \in 1..(i - 1) : line[j] \in {" ", "\t"}) - 1
DropBlankEnds(ls) ==
    LET a == IF ls # <<>> /\ IsBlank(ls[1]) THEN Tail(ls) ELSE ls IN
    IF a # <<>> /\ IsBlank(a[Len(a)]) THEN SubSeq(a, 1, Len(a) - 1) ELSE a
CommonIndent(ls) ==
    LET widths == {Indent(ls[i]) : i \in {j \in 2..Len(ls) : ~IsBlank(ls[j])}} IN
    IF widths = {} THEN 0 ELSE CHOOSE w \in widths : \A x \in widths : w <= x
Dedent(s) ==
    LET ls == DropBlankEnds(SplitLines(s))
        n == CommonIndent(ls)
        cut(line) == SubSeq(line, (IF Indent(line) < n THEN Indent(line) ELSE n) + 1, Len(line))
    IN  JoinLines([i \in 1..Len(ls) |-> IF i = 1 THEN ls[1] ELSE cut(ls[i])])

\* C9: the String token of a block string carries its content dedented line
\* by line.
C9_BlockStringIsDedented ==
    \A i \in NextTokenCalls :
      calls[i].from = 0 /\ buffer \in BlockStringInputs =>
        calls[i].res = RetOk(<<String(Dedent(SubSeq(buffer, 4, Len(buffer) - 3)))>>)

\* three `.` bytes stand at the positions after cur
ThreeDots(cur) ==
    cur + 3 <= Len(buffer) /\ \A i \in 1..3 : buffer[cur + i] = "."

\* C10: next_token returns DotDotDot only for three `.` bytes at consecutive
\* positions, and an error for a `.` that is not followed by two more.
C10_DotsAreConsecutive ==
    \A i \in NextTokenCalls :
      LET start == skip_ignored_characters(calls[i].from) IN
      /\ calls[i].res = RetOk(<<Punct("DotDotDot")>>) => ThreeDots(start)
      /\ peek_byte(start) = <<".">> /\ ~ThreeDots(start) => calls[i].res.st = "Err"

\* what a backslash and the byte after it stand for
Unescape(b) ==
    CASE b = "n" -> <<"\n">>
      [] b = "r" -> <<"\r">>
      [] b = "t" -> <<"\t">>
      [] b = "f" -> <<"\f">>
      [] b \in {"\"", "\\", "/"} -> <<b>>
      [] OTHER -> <<>>

\* a single-line string read from cur, the position after its opening quote:
\* a backslash escapes the one byte after it, the first quote that is not
\* escaped closes the string, a raw newline is an error; "Open" stands for
\* what is not a string of this form
RECURSIVE StringFrom(_, _)
StringFrom(cur, acc) ==
    LET b == peek_byte(cur) IN
    IF b = <<>> THEN [st |-> "Open", text |-> acc]
    ELSE IF b[1] = "\"" THEN [st |-> "Ok", text |-> acc]
    ELSE IF b[1] = "\n" THEN [st |-> "Err", text |-> acc]
    ELSE IF b[1] = "\\"
      THEN IF peek_byte(cur + 1) = <<>> \/ Unescape(peek_byte(cur + 1)[1]) = <<>>
             THEN [st |-> "Open", text |-> acc]
             ELSE StringFrom(cur + 2, acc \o Unescape(peek_byte(cur + 1)[1]))
    ELSE StringFrom(cur + 1, Append(acc, b[1]))

\* the byte at cur opens a single-line string whose first byte is a byte of
\* its content
OpensString(cur) ==
    /\ peek_byte(cur) = <<"\"">>
    /\ peek_byte(cur + 1) # <<>>
    /\ peek_byte(cur + 1)[1] \notin Ignored \cup {"\""}

\* C11: in a single-line string a backslash escapes exactly the byte after it
\* and the escape is decoded, the other bytes are taken as they are, the first
\* quote that is not escaped closes the string and gives a String token, and
\* a raw newline in the string is an error.
C11_EscapesAreDecoded ==
    \A i \in NextTokenCalls :
      LET start == skip_ignored_characters(calls[i].from)
          s == StringFrom(start + 1, <<>>)
      IN  OpensString(start) =>
            /\ s.st = "Ok" => calls[i].res = RetOk(<<String(s.text)>>)
            /\ s.st = "Err" => calls[i].res.st = "Err"


\* ---- selections of a query, read off the token stream ----

\* the tokens of the buffer from cur on
RECURSIVE TokensFrom(_)
TokensFrom(cur) ==
    LET t == next_token(cur) IN
    IF t.st # "Ok" \/ t.tok = <<>> THEN <<>> ELSE <<t.tok[1]>> \o TokensFrom(t.cur)

\* the selections the grammar reads from token i on, up to the closing brace:
\* what each selection is, with the names it carries
RECURSIVE SelectionsAt(_, _)
RECURSIVE SelectionAt(_, _)
SelectionsAt(toks, i) ==
    IF i > Len(toks) THEN [sels |-> <<>>, next |-> i]
    ELSE IF toks[i].t = "CloseCurlyBrace" THEN [sels |-> <<>>, next |-> i + 1]
    ELSE LET one == SelectionAt(toks, i)
             rest == SelectionsAt(toks, one.next)
         IN  [sels |-> <<one.sel>> \o rest.sels, next |-> rest.next]
SelectionAt(toks, i) ==
    IF toks[i].t = "DotDotDot"
      THEN IF i + 2 <= Len(toks) /\ toks[i + 1] = Keyword("On")
             THEN LET inner == SelectionsAt(toks, i + 4)
                  IN  [sel |-> [selection |-> "InlineFragment", on |-> toks[i + 2].v,
                                selection_set |-> inner.sels],
                       next |-> inner.next]
             ELSE [sel |-> [selection |-> "FragmentSpread", name |-> toks[i + 1].v],
                   next |-> i + 2]
    ELSE IF i + 2 <= Len(toks) /\ toks[i + 1].t = "Colon"
      THEN [sel |-> [selection |-> "Field", alias |-> <<toks[i].v>>, name |-> toks[i + 2].v],
            next |-> i + 3]
    ELSE [sel |-> [selection |-> "Field", alias |-> <<>>, name |-> toks[i].v],
          next |-> i + 1]

\* a parsed selection, reduced to what it is and the names it carries
RECURSIVE Outline(_)
Outline(sel) ==
    CASE sel.selection = "Field" ->
           [selection |-> "Field", alias |-> sel.alias, name |-> sel.name]
      [] sel.selection = "FragmentSpread" ->
           [selection |-> "FragmentSpread", name |-> sel.name]
      [] sel.selection = "InlineFragment" ->
           [selection |-> "InlineFragment", on |-> sel.on,
            selection_set |-> [k \in DOMAIN sel.selection_set |-> Outline(sel.selection_set[k])]]

\* every selection of a list, those inside inline fragments included
RECURSIVE Flat(_)
Flat(sels) ==
    IF sels = <<>> THEN <<>>
    ELSE (IF Head(sels).selection = "InlineFragment"
            THEN <<Head(sels)>> \o Flat(Head(sels).selection_set)
            ELSE <<Head(sels)>>) \o Flat(Tail(sels))

\* the parse of an anonymous query succeeded
QueryParsed == status = "done" /\ buffer \in SelectionInputs
ParsedSelections ==
    LET q == document.operations[<< <<>>, "Query">>].selection_set
    IN  Flat([k \in DOMAIN q |-> Outline(q[k])])
\* the token after `query {` is the third
SourceSelections == Flat(SelectionsAt(TokensFrom(0), 3).sels)

\* C12: a field whose leading name is followed by a colon is parsed as a Field
\* whose alias is the leading name and whose name is the name after the colon;
\* a field without the colon is a Field without alias, named by the leading name.
C12_AliasIsTheNameBeforeTheColon ==
    QueryParsed =>
      /\ Len(ParsedSelections) = Len(SourceSelections)
      /\ \A k \in DOMAIN SourceSelections :
           SourceSelections[k].selection = "Field"
             => ParsedSelections[k] = SourceSelections[k]
C12_Witness ==
    /\ QueryParsed
    /\ \E j, k \in DOMAIN ParsedSelections :
         /\ ParsedSelections[j].selection = "Field" /\ ParsedSelections[j].alias # <<>>
         /\ ParsedSelections[k].selection = "Field" /\ ParsedSelections[k].alias = <<>>

\* C13: three dots followed by the keyword `on` are parsed as an InlineFragment
\* on the type named next, with the braced selections; three dots followed by
\* anything else are a FragmentSpread of the name that follows; the two forms
\* are never taken for one another.
C13_OnTellsTheFragmentFormsApart ==
    QueryParsed =>
      /\ Len(ParsedSelections) = Len(SourceSelections)
      /\ \A k \in DOMAIN SourceSelections :
           /\ ParsedSelections[k].selection = SourceSelections[k].selection
           /\ SourceSelections[k].selection # "Field"
                => ParsedSelections[k] = SourceSelections[k]
C13_Witness ==
    /\ QueryParsed
    /\ \E j, k \in DOMAIN ParsedSelections :
         /\ ParsedSelections[j].selection = "FragmentSpread"
         /\ ParsedSelections[k].selection = "InlineFragment"
         /\ ParsedSelections[k].selection_set # <<>>


\* ---- validation ----

\* the (object type, implements entry) pairs of the document
ImplementsEntries ==
    {e \in (DOMAIN document.output_objects) \X (1..MaxVec) :
       e[2] <= Len(document.output_objects[e[1]].implements)}
InterfaceOf(e) == document.output_objects[e[1]].implements[e[2]]
MissingEntries == {e \in ImplementsEntries : InterfaceOf(e) \notin DOMAIN document.interfaces}
Validated == returned[1] = "validate"
Errors == ret.v

\* C14: validate leaves the Document as it was; its result holds an
\* InterfaceDne(I) for every implements entry I of an object type that is no key
\* of the interfaces map, and none for an I that is a key.
C14_ValidateReportsMissingInterfaces ==
    [][Validated' =>
         /\ document' = document
         /\ \A e \in MissingEntries' :
              \E k \in DOMAIN Errors' : Errors'[k] = InterfaceDne(InterfaceOf(e)')
         /\ \A k \in DOMAIN Errors' :
              /\ Errors'[k].error = "InterfaceDne"
              /\ Errors'[k].name \notin DOMAIN document'.interfaces
         /\ Len(Errors') = Cardinality(MissingEntries')]_vars
C14_Witness ==
    /\ Validated
    /\ Cardinality(MissingEntries) >= 2
    /\ MissingEntries # ImplementsEntries
    /\ Cardinality(DOMAIN document.output_objects) >= 2


\* ---- consume_byte_if_eq and peek_token ----

\* the finished calls of consume_byte_if_eq made with the cursor inside the
\* buffer or at its end
ConsumeByteCalls ==
    {i \in 1..Len(calls) :
        calls[i].op = "consume_byte_if_eq" /\ ~calls[i].open /\ calls[i].from <= Len(buffer)}

\* C15: when consume_byte_if_eq returns false it has consumed no significant
\* byte: the cursor is at the first significant byte at or after the position
\* it had before the call, or at the end of the buffer; this holds at exhausted
\* input too.
C15_RefusedByteIsNotConsumed ==
    \A i \in ConsumeByteCalls :
      calls[i].res = RetOk(FALSE) => calls[i].to = skip_ignored_characters(calls[i].from)


\* the calls of peek_token that returned
PeekTokenCalls ==
    {i \in 1..Len(calls) :
        calls[i].op = "peek_token" /\ ~calls[i].open /\ calls[i].res.st \in {"Ok", "Err"}}

\* C16: peek_token does not commit the cursor: it returns what next_token would
\* return, a second peek_token returns the same, a next_token right after it
\* returns the peeked token, and it moves the cursor past insignificant
\* characters only.
C16_PeekDoesNotCommit ==
    \A i \in PeekTokenCalls :
      /\ calls[i].to = skip_ignored_characters(calls[i].from)
      /\ LET t == next_token(calls[i].from) IN
           /\ t.st = "Ok" => calls[i].res = RetOk(t.tok)
           /\ t.st = "Err" => calls[i].res = RetErr(t.err)
      /\ (i < Len(calls) /\ calls[i + 1].op \in {"peek_token", "next_token"}
            /\ ~calls[i + 1].open)
           => calls[i + 1].res = calls[i].res
C16_Witness ==
    \E i, j \in PeekTokenCalls :
      /\ calls[i].res.st = "Ok" /\ calls[i].res.v # <<>>
      /\ calls[i].from < calls[i].to
      /\ j = i + 1


\* ---- the cursor ----

\* the state belongs to a run of GraphqlParser::parse
InParse == calls = <<>> /\ status # "idle"

\* C17: in every state reached while GraphqlParser::parse runs, the cursor is
\* between 0 and the length of the buffer.
C17_CursorStaysInTheBuffer == InParse => cursor \in 0..Len(buffer)

\* a field's name has been read to the end of the buffer and the cursor has
\* gone back onto it
C17_Witness ==
    /\ InParse
    /\ Running("parse_fragment_field") /\ Top.pc = 4 /\ Top.arguments = <<>>
    /\ cursor < Len(buffer)
    /\ peek_byte(cursor)[1] \in NameBody


\* ---- single-line strings without escapes ----

\* the position of the first quote at or after cur, when no backslash and no
\* end of line comes before it; -1 otherwise
RECURSIVE ClosingQuote(_)
ClosingQuote(cur) ==
    IF peek_byte(cur) = <<>> \/ peek_byte(cur)[1] \in {"\\", "\n", "\r"} THEN -1
    ELSE IF peek_byte(cur) = <<"\"">> THEN cur
    ELSE ClosingQuote(cur + 1)

\* C18: a single-line string without escapes carries exactly the bytes between
\* its quotes, leading spaces, tabs and commas included; the token is the empty
\* string only when the closing quote directly follows the opening one.
C18_StringCarriesItsBytes ==
    \A i \in NextTokenCalls :
      LET start == skip_ignored_characters(calls[i].from)
          close == ClosingQuote(start + 1)
      IN  peek_byte(start) = <<"\"">> =>
            /\ close > start + 1
                 => calls[i].res = RetOk(<<String(SubSeq(buffer, start + 2, close))>>)
            /\ calls[i].res = RetOk(<<String(<<>>)>>) => close = start + 1

====
